---------------------------- MODULE Spec2Model ----------------------------
(*************************************************************************)
(* Model of the two one-time migration scripts                            *)
(*   src/cloud-sql/migrate-qual-scores.py                                 *)
(*   src/cloud-sql/migrate-veer-feedback.py                               *)
(* Each component of the scripts has its own specification over the       *)
(* shared variables: SpecFetch (fetch_all_paginated), SpecMapper          *)
(* (fetch_runner_id_map), SpecLegacy (fetch_legacy_quals), SpecPrepare    *)
(* (main, step 5 of the qual script), SpecMain (main from the prepared    *)
(* records to the exit, run twice in a row) and SpecRace (two             *)
(* invocations of main racing on one target table).                       *)
(*************************************************************************)
EXTENDS Integers, Sequences, FiniteSets, TLC

VARIABLES
    \* fetch_all_paginated
    source, rows, offset, batch, requests, pageLens, fpc,
    \* fetch_runner_id_map
    profile, mapping, mi,
    \* fetch_legacy_quals
    legacy_in, legacy, li, lpc,
    \* main, step 5 (qual script)
    runner_map, coach_input_rows, legacy_rows, unmapped, pi, ppc,
    \* main, upsert_to_cloud_sql and the target database
    script, records, table, table0, committed, pc, cur, total, conn,
    pending, log, exitCode, raised

fvars == <<source, rows, offset, batch, requests, pageLens, fpc>>
mvars == <<profile, mapping, mi>>
lvars == <<legacy_in, legacy, li, lpc>>
pvars == <<runner_map, coach_input_rows, legacy_rows, unmapped, pi, ppc>>
dvars == <<script, records, table, table0, committed, pc, cur, total, conn,
           pending, log, exitCode, raised>>
vars == <<fvars, mvars, lvars, pvars, dvars>>

-----------------------------------------------------------------------------
(* Bounds of the model.  page_size and BATCH_SIZE stand for the program's  *)
(* 1000 (fetch_all_paginated) and 500 (BATCH_SIZE): the loops depend on    *)
(* them only through the lengths of the pages and batches, so they are     *)
(* scaled down to let every page and batch boundary case be enumerated.    *)
page_size == 2
BATCH_SIZE == 2
MaxRows == 5
MaxProfile == 2
MaxSeasonLen == 3
MaxSrcRows == 2
MaxRecords == 3

\* Python's None (a JSON null of the source API, the default of dict.get).
None == "<None>"

Min(a, b) == IF a < b THEN a ELSE b

Range(s) == {s[k] : k \in 1..Len(s)}

\* Sequences over S of length at most n.
SeqUpTo(S, n) == UNION {[1..k -> S] : k \in 0..n}

\* Python truthiness of an identifier or text value (None and "" are falsy).
Truthy(v) == v # None /\ v # ""

-----------------------------------------------------------------------------
(* fetch_all_paginated *)

\* The rows of the source table the request's filters select, in table order.
Matching(tbl) == SelectSeq(tbl, LAMBDA r : r.match)

\* query.range(from, to).execute(): the rows at the inclusive 0-based
\* positions from..to of the filtered result; `result.data or []`.
RangeQuery(tbl, from, to) ==
    SubSeq(Matching(tbl), from + 1, Min(to + 1, Len(Matching(tbl))))

\* Mutant of LastPage: a full page ends the loop too (<= for <).
LastPageLE(b) == Len(b) <= page_size

\* `if len(batch) < page_size: break`
LastPage(b) == Len(b) < page_size

\* `offset += page_size`
NextOffset(o) == o + page_size

FetchIdle ==
    /\ source = <<>> /\ rows = <<>> /\ offset = 0 /\ batch = <<>>
    /\ requests = <<>> /\ pageLens = <<>> /\ fpc = "idle"

\* Source tables of at most MaxRows rows; row k carries its position as its
\* identity and whether the request's filters select it.
SourceTables ==
    UNION {{[k \in 1..n |-> [id |-> k, match |-> f[k]]] : f \in [1..n -> BOOLEAN]} :
            n \in 0..MaxRows}

FetchInit ==
    /\ source \in SourceTables
    /\ rows = <<>> /\ offset = 0 /\ batch = <<>>
    /\ requests = <<>> /\ pageLens = <<>> /\ fpc = "loop"

\* One iteration of `while True`: the request, rows.extend(batch), and the
\* break or the advance of the offset.
FetchPage ==
    /\ fpc = "loop"
    /\ LET b == RangeQuery(source, offset, offset + page_size - 1) IN
        /\ batch' = b
        /\ requests' = Append(requests, offset)
        /\ pageLens' = Append(pageLens, Len(b))
        /\ rows' = rows \o b
        /\ IF LastPage(b)
             THEN fpc' = "done" /\ offset' = offset
             ELSE fpc' = "loop" /\ offset' = NextOffset(offset)
    /\ UNCHANGED source

-----------------------------------------------------------------------------
(* fetch_runner_id_map *)

Emails == {"a@x.com", "b@x.com"}
RunnerIds == {"R1", "R2"}
EmptyMap == [e \in {} |-> None]

\* Mutant of DictPut: an existing key keeps its first value.
DictPutFirst(m, k, v) ==
    [x \in DOMAIN m \cup {k} |-> IF x \in DOMAIN m THEN m[x] ELSE v]

\* A dict comprehension's store of k: v (a later store overwrites).
DictPut(m, k, v) ==
    [x \in DOMAIN m \cup {k} |-> IF x = k THEN v ELSE m[x]]

\* dict.get(k): None when k is no key.
DictGet(m, k) == IF k \in DOMAIN m THEN m[k] ELSE None

ProfileRows == [email_id : Emails, runner_id : RunnerIds \cup {None, ""}]

MapperIdle == profile = <<>> /\ mapping = EmptyMap /\ mi = 0

MapperInit ==
    /\ profile \in SeqUpTo(ProfileRows, MaxProfile)
    /\ mapping = EmptyMap
    /\ mi = 1

\* {r["email_id"]: r["runner_id"] for r in rows if r.get("runner_id")},
\* one row of the comprehension per step.
MapRow ==
    /\ mi >= 1 /\ mi <= Len(profile)
    /\ LET r == profile[mi] IN
         mapping' = IF Truthy(r.runner_id)
                      THEN DictPut(mapping, r.email_id, r.runner_id)
                      ELSE mapping
    /\ mi' = mi + 1
    /\ UNCHANGED profile

MapperDone == mi = Len(profile) + 1

-----------------------------------------------------------------------------
(* fetch_legacy_quals.  The season and qual texts are sequences of          *)
(* one-character strings, so that the digit extraction, int() and strip()   *)
(* are computed character by character.  A null field is <<None>>.          *)

NoneText == <<None>>

DigitVal ==
    [c \in {"0", "1", "2", "3", "4", "5", "6", "7", "8", "9"} |->
        CASE c = "0" -> 0 [] c = "1" -> 1 [] c = "2" -> 2 [] c = "3" -> 3
          [] c = "4" -> 4 [] c = "5" -> 5 [] c = "6" -> 6 [] c = "7" -> 7
          [] c = "8" -> 8 [] c = "9" -> 9]

\* str.isdigit() of one character.
IsDigit(c) == c \in DOMAIN DigitVal

\* "".join(c for c in season_str if c.isdigit())
DigitsOf(s) == SelectSeq(s, IsDigit)

\* int() of a non-empty string of decimal digits.
RECURSIVE ParseInt(_)
ParseInt(s) ==
    IF s = <<>> THEN 0
    ELSE 10 * ParseInt(SubSeq(s, 1, Len(s) - 1)) + DigitVal[s[Len(s)]]

IsSpace(c) == c = " "

\* str.strip(): leading and trailing whitespace removed.
RECURSIVE Strip(_)
Strip(s) ==
    IF s = <<>> THEN s
    ELSE IF IsSpace(s[1]) THEN Strip(Tail(s))
    ELSE IF IsSpace(s[Len(s)]) THEN Strip(SubSeq(s, 1, Len(s) - 1))
    ELSE s

\* The last season of the legacy schema: `int(season_num) <= 13`.
LegacySeasonMax == 13

\* `int(season_num) <= 13`
SeasonInRange(n) == n <= LegacySeasonMax

\* `if season_num and int(season_num) <= 13 and r.get("qual") and
\*  r["qual"].strip()` for a row whose season is a string.
KeepLegacy(r) ==
    LET season_num == DigitsOf(r.season) IN
    /\ season_num # <<>>
    /\ SeasonInRange(ParseInt(season_num))
    /\ r.qual # NoneText /\ r.qual # <<>>
    /\ Strip(r.qual) # <<>>

SeasonChars == {"S", "-", " ", "0", "1", "3", "4"}
SeasonExamples ==
    {<<"S", "e", "a", "s", "o", "n", " ", "1", "3">>, <<"S", "-", "1", "3">>,
     <<"S", "e", "a", "s", "o", "n", " ", "1", "4">>, <<"S", "-", "1", "4">>}
Seasons == SeqUpTo(SeasonChars, MaxSeasonLen) \cup SeasonExamples \cup {NoneText}
Quals == {<<>>, <<" ">>, <<"Q">>, <<" ", "Q", " ">>}
LegacyRows == [season : Seasons, qual : Quals]
GoodLegacyRow == [season |-> <<"1", "3">>, qual |-> <<"Q">>]

LegacyIdle == legacy_in = <<>> /\ legacy = <<>> /\ li = 0 /\ lpc = "idle"

\* The rows fetch_all_paginated returned (qual is never null: the request
\* filters on it; the season is any text or null): one row, alone or next to
\* a row that is kept.
LegacyInit ==
    /\ legacy_in \in {<<>>} \cup {<<r>> : r \in LegacyRows}
                      \cup {<<GoodLegacyRow, r>> : r \in LegacyRows}
                      \cup {<<r, GoodLegacyRow>> : r \in LegacyRows}
    /\ legacy = <<>> /\ li = 1 /\ lpc = "loop"

\* One iteration of `for r in rows` on a row whose season is a string.
LegacyRow ==
    /\ lpc = "loop" /\ li <= Len(legacy_in)
    /\ legacy_in[li].season # NoneText
    /\ legacy' = IF KeepLegacy(legacy_in[li])
                   THEN Append(legacy, legacy_in[li]) ELSE legacy
    /\ li' = li + 1
    /\ UNCHANGED <<legacy_in, lpc>>

\* One iteration on a row whose season is null: r.get("season", "") is
\* None (the key is present), and iterating None raises TypeError, which
\* nothing catches.
LegacyRowNullSeason ==
    /\ lpc = "loop" /\ li <= Len(legacy_in)
    /\ legacy_in[li].season = NoneText
    /\ lpc' = "raised"
    /\ UNCHANGED <<legacy_in, legacy, li>>

\* The loop is over: `return legacy`.
LegacyReturn ==
    /\ lpc = "loop" /\ li > Len(legacy_in)
    /\ lpc' = "done"
    /\ UNCHANGED <<legacy_in, legacy, li>>

-----------------------------------------------------------------------------
(* main of the qual script, step 5: mapping email_id -> runner_id.          *)
(* `unmapped` is a Python set; it is held as the sequence of its elements   *)
(* (in insertion order), so that "an email is in it once" is a statement    *)
(* about the code's set.add and not about the notation.                     *)

\* Mutant of SetAdd: the email is appended on every miss (a list).
ListAppend(s, e) == Append(s, e)

\* unmapped.add(email)
SetAdd(s, e) == IF e \in Range(s) THEN s ELSE Append(s, e)

\* The record appended for a coach-input row.
CoachRecord(row, runner_id) ==
    [runner_id |-> runner_id, season |-> row.season, meso |-> row.meso,
     qual_score |-> row.meso_qual_score, source_table |-> "rhwb_coach_input"]

\* The record appended for a legacy row.
LegacyRecord(row, runner_id) ==
    [runner_id |-> runner_id, season |-> row.season, meso |-> row.meso,
     qual_score |-> row.qual, source_table |-> "rhwb_meso_scores"]

\* `if not runner_id`
Unmapped(runner_id) == ~Truthy(runner_id)

CoachRows ==
    [email_id : Emails, season : {14}, meso : {1, 2}, meso_qual_score : {"Q1"}]
LegacyKeptRows ==
    [email_id : Emails, season : {"Season 13"}, meso : {1, 2}, qual : {"Q0"}]

\* The identifier maps fetch_runner_id_map can return: no falsy runner_id.
RunnerMaps == UNION {[D -> RunnerIds] : D \in SUBSET Emails}

PrepareIdle ==
    /\ runner_map = EmptyMap /\ coach_input_rows = <<>> /\ legacy_rows = <<>>
    /\ unmapped = <<>> /\ pi = 0 /\ ppc = "idle"

PrepareInit ==
    /\ runner_map \in RunnerMaps
    /\ coach_input_rows \in SeqUpTo(CoachRows, MaxSrcRows)
    /\ legacy_rows \in SeqUpTo(LegacyKeptRows, MaxSrcRows)
    /\ unmapped = <<>> /\ pi = 1 /\ ppc = "coach"

\* One iteration of `for row in coach_input_rows`.
PrepCoachRow ==
    /\ ppc = "coach" /\ pi <= Len(coach_input_rows)
    /\ LET row == coach_input_rows[pi]
           email == row.email_id
           runner_id == DictGet(runner_map, email)
       IN IF Unmapped(runner_id)
            THEN unmapped' = SetAdd(unmapped, email) /\ records' = records
            ELSE records' = Append(records, CoachRecord(row, runner_id))
                 /\ unmapped' = unmapped
    /\ pi' = pi + 1
    /\ UNCHANGED <<runner_map, coach_input_rows, legacy_rows, ppc>>

\* The first loop is over; the second starts.
PrepCoachEnd ==
    /\ ppc = "coach" /\ pi > Len(coach_input_rows)
    /\ ppc' = "legacy" /\ pi' = 1
    /\ UNCHANGED <<runner_map, coach_input_rows, legacy_rows, unmapped, records>>

\* One iteration of `for row in legacy_rows`.
PrepLegacyRow ==
    /\ ppc = "legacy" /\ pi <= Len(legacy_rows)
    /\ LET row == legacy_rows[pi]
           email == row.email_id
           runner_id == DictGet(runner_map, email)
       IN IF Unmapped(runner_id)
            THEN unmapped' = SetAdd(unmapped, email) /\ records' = records
            ELSE records' = Append(records, LegacyRecord(row, runner_id))
                 /\ unmapped' = unmapped
    /\ pi' = pi + 1
    /\ UNCHANGED <<runner_map, coach_input_rows, legacy_rows, ppc>>

\* The second loop is over: the prepared count and the unmapped emails are
\* printed.
PrepLegacyEnd ==
    /\ ppc = "legacy" /\ pi > Len(legacy_rows)
    /\ ppc' = "done"
    /\ UNCHANGED <<runner_map, coach_input_rows, legacy_rows, unmapped, records, pi>>

-----------------------------------------------------------------------------
(* The target tables and the two upsert statements.  A table is the set of  *)
(* its rows.  NOW() is the time of the running transaction: invocation p's  *)
(* transaction has the timestamp p, the rows present before any invocation  *)
(* the timestamp 0.                                                         *)

Procs == {1, 2}

Now(p) == p

QualKey(x) == <<x.runner_id, x.season, x.meso>>

VeerKey(x) == <<x.message_id, x.runner_id>>

\* The conflict target of the running script's statement.
KeyOf(x) == IF script = "qual" THEN QualKey(x) ELSE VeerKey(x)

\* INSERT INTO qual_scores (runner_id, season, meso, qual_score,
\* source_table): the row of a record whose key is new (updated_at is not
\* in the column list and takes the time of the insert).
QualInsertRow(r, now) ==
    [runner_id |-> r.runner_id, season |-> r.season, meso |-> r.meso,
     qual_score |-> r.qual_score, source_table |-> r.source_table,
     updated_at |-> now]

\* ON CONFLICT (runner_id, season, meso) DO UPDATE SET qual_score,
\* source_table, updated_at.
QualUpdateRow(x, r, now) ==
    [x EXCEPT !.qual_score = r.qual_score, !.source_table = r.source_table,
              !.updated_at = now]

\* INSERT INTO veer_feedback (message_id, runner_id, feedback,
\* user_question, assistant_response, comment, created_at).
VeerInsertRow(r, now) ==
    [message_id |-> r.message_id, runner_id |-> r.runner_id,
     feedback |-> r.feedback, user_question |-> r.user_question,
     assistant_response |-> r.assistant_response, comment |-> r.comment,
     created_at |-> r.created_at, updated_at |-> now]

\* ON CONFLICT (message_id, runner_id) DO UPDATE SET feedback,
\* user_question, assistant_response, comment, updated_at (created_at is
\* not in the SET list).
VeerUpdateRow(x, r, now) ==
    [x EXCEPT !.feedback = r.feedback, !.user_question = r.user_question,
              !.assistant_response = r.assistant_response,
              !.comment = r.comment, !.updated_at = now]

InsertRow(r, now) ==
    IF script = "qual" THEN QualInsertRow(r, now) ELSE VeerInsertRow(r, now)

UpdateRow(x, r, now) ==
    IF script = "qual" THEN QualUpdateRow(x, r, now) ELSE VeerUpdateRow(x, r, now)

\* Mutant of UpsertRow: a plain INSERT, the conflict clause left out (on a
\* table that does not enforce the key).
PlainInsertRow(T, r, now) == T \cup {InsertRow(r, now)}

\* INSERT ... ON CONFLICT ... DO UPDATE of one record on the rows T the
\* statement sees.
UpsertRow(T, r, now) ==
    IF \E x \in T : KeyOf(x) = KeyOf(r)
      THEN {IF KeyOf(x) = KeyOf(r) THEN UpdateRow(x, r, now) ELSE x : x \in T}
      ELSE T \cup {InsertRow(r, now)}

\* execute_values(cursor, sql, values): the records of one batch, in order.
RECURSIVE ExecuteValues(_, _, _)
ExecuteValues(T, values, now) ==
    IF values = <<>> THEN T
    ELSE ExecuteValues(UpsertRow(T, Head(values), now), Tail(values), now)

KeysOf(T) == {KeyOf(x) : x \in T}
KeysOfSeq(s) == {KeyOf(s[k]) : k \in 1..Len(s)}

\* The rows invocation p's transaction sees: the committed rows, with its
\* own uncommitted versions in place of those it has written.
Visible(p) == {x \in table : KeyOf(x) \notin KeysOf(pending[p])} \cup pending[p]

\* records[i : i + BATCH_SIZE]
BatchAt(i) == SubSeq(records, i + 1, Min(i + BATCH_SIZE, Len(records)))

\* A statement waits while another open transaction holds an uncommitted
\* version of a row it writes (the row lock of the target database).
Blocked(p) ==
    \E q \in Procs \ {p} : KeysOfSeq(BatchAt(cur[p])) \cap KeysOf(pending[q]) # {}

-----------------------------------------------------------------------------
(* main from the prepared records on, and upsert_to_cloud_sql.             *)
(* pc[p]: "fetched" (veer script: the rows are fetched), "connect",         *)
(* "upsert" (inside upsert_to_cloud_sql), "finally", "verify", "exit".      *)
(* log[p] is the sequence of calls invocation p made on its connection.     *)
(* exitCode[p] is -1 while the process runs.                                *)

QualRecords ==
    {[runner_id |-> "R1", season |-> 14, meso |-> m, qual_score |-> v[1],
      source_table |-> v[2]] :
        m \in {1, 2},
        v \in {<<"Q1", "rhwb_coach_input">>, <<"Q0", "rhwb_meso_scores">>}}

VeerVariants ==
    {[feedback |-> "up", user_question |-> "q1", assistant_response |-> "a1",
      comment |-> None, created_at |-> "t1"],
     [feedback |-> "down", user_question |-> "q2", assistant_response |-> "a2",
      comment |-> "c2", created_at |-> "t2"]}

VeerRow(m, r, v) ==
    [message_id |-> m, runner_id |-> r, feedback |-> v.feedback,
     user_question |-> v.user_question,
     assistant_response |-> v.assistant_response, comment |-> v.comment,
     created_at |-> v.created_at]

\* Feedback rows of the source: two keys sharing the message, and a row
\* with no runner_id.
VeerRows ==
    {VeerRow("m1", r, v) : r \in RunnerIds, v \in VeerVariants} \cup
    {VeerRow("m1", None, CHOOSE v \in VeerVariants : v.feedback = "up")}

\* Rows the target tables may hold before the migration runs.
QualOldRows ==
    {[runner_id |-> "R1", season |-> 14, meso |-> m, qual_score |-> "Qold",
      source_table |-> "rhwb_meso_scores", updated_at |-> 0] : m \in {1, 2}}
VeerOldRows ==
    {[message_id |-> "m1", runner_id |-> r, feedback |-> "old",
      user_question |-> "q0", assistant_response |-> "a0", comment |-> "c0",
      created_at |-> "t0", updated_at |-> 0] : r \in RunnerIds}

\* Mutant of ExitCode: a run that prepared nothing counts as a failure.
ExitCodeZeroFails(upserted, prepared) ==
    IF upserted = prepared /\ prepared > 0 THEN 0 ELSE 1

\* `if total == len(records)` ... `else: sys.exit(1)`
ExitCode(upserted, prepared) == IF upserted = prepared THEN 0 ELSE 1

\* Mutant of OnUpsertException: no finally block, the exception leaves main
\* at once.
OnUpsertExceptionNoFinally == "exit"

\* try: upsert_to_cloud_sql(...) finally: conn.close()
OnUpsertException == "finally"

\* Mutant of AfterBatch: the transaction is committed after every batch.
AfterBatchCommit == TRUE

\* Whether a commit follows each batch statement (conn.commit() is after
\* the loop).
AfterBatch == FALSE

MainIdle ==
    /\ script = "none" /\ records = <<>> /\ table = {} /\ table0 = {}
    /\ committed = <<>>
    /\ pc = [p \in Procs |-> "idle"] /\ cur = [p \in Procs |-> 0]
    /\ total = [p \in Procs |-> 0] /\ conn = [p \in Procs |-> "none"]
    /\ pending = [p \in Procs |-> {}] /\ log = [p \in Procs |-> <<>>]
    /\ exitCode = [p \in Procs |-> -1] /\ raised = [p \in Procs |-> FALSE]

MainInit ==
    /\ script \in {"qual", "veer"}
    /\ IF script = "qual"
         THEN /\ records \in SeqUpTo(QualRecords, MaxRecords)
              /\ rows = <<>>
              /\ table0 \in SUBSET QualOldRows
              /\ pc = [p \in Procs |-> "connect"]
         ELSE /\ records = <<>>
              /\ rows \in SeqUpTo(VeerRows, MaxRecords)
              /\ table0 \in SUBSET VeerOldRows
              /\ pc = [p \in Procs |-> "fetched"]
    /\ table = table0
    /\ committed = <<>>
    /\ cur = [p \in Procs |-> 0]
    /\ total = [p \in Procs |-> 0] /\ conn = [p \in Procs |-> "none"]
    /\ pending = [p \in Procs |-> {}] /\ log = [p \in Procs |-> <<>>]
    /\ exitCode = [p \in Procs |-> -1] /\ raised = [p \in Procs |-> FALSE]

\* veer main: `if not rows: return`.
VeerNoData(p) ==
    /\ pc[p] = "fetched" /\ rows = <<>>
    /\ pc' = [pc EXCEPT ![p] = "exit"]
    /\ exitCode' = [exitCode EXCEPT ![p] = 0]
    /\ UNCHANGED <<script, records, table, table0, committed, cur, total, conn,
                   pending, log, raised>>

\* veer main: records = [r for r in rows if r.get("runner_id")].
VeerFilter(p) ==
    /\ pc[p] = "fetched" /\ rows # <<>>
    /\ records' = SelectSeq(rows, LAMBDA r : Truthy(r.runner_id))
    /\ pc' = [pc EXCEPT ![p] = "connect"]
    /\ UNCHANGED <<script, table, table0, committed, cur, total, conn, pending,
                   log, exitCode, raised>>

\* conn = get_cloud_sql_conn(), then the call of upsert_to_cloud_sql.
Connect(p) ==
    /\ pc[p] = "connect"
    /\ conn' = [conn EXCEPT ![p] = "open"]
    /\ pc' = [pc EXCEPT ![p] = "upsert"]
    /\ UNCHANGED <<script, records, table, table0, committed, cur, total,
                   pending, log, exitCode, raised>>

\* psycopg2.connect raises: nothing catches it, no connection exists.
ConnectFail(p) ==
    /\ pc[p] = "connect"
    /\ raised' = [raised EXCEPT ![p] = TRUE]
    /\ exitCode' = [exitCode EXCEPT ![p] = 1]
    /\ pc' = [pc EXCEPT ![p] = "exit"]
    /\ UNCHANGED <<script, records, table, table0, committed, cur, total, conn,
                   pending, log>>

\* upsert_to_cloud_sql: `if not records: return 0`.
UpsertEmpty(p) ==
    /\ pc[p] = "upsert" /\ records = <<>>
    /\ total' = [total EXCEPT ![p] = 0]
    /\ pc' = [pc EXCEPT ![p] = "finally"]
    /\ UNCHANGED <<script, records, table, table0, committed, cur, conn,
                   pending, log, exitCode, raised>>

\* One iteration of the batch loop whose statement succeeds.
StmtOk(p) ==
    /\ pc[p] = "upsert" /\ records # <<>> /\ cur[p] < Len(records)
    /\ ~Blocked(p)
    /\ LET b == BatchAt(cur[p])
           after == ExecuteValues(Visible(p), b, Now(p))
           mine == {x \in after : KeyOf(x) \in KeysOf(pending[p]) \cup KeysOfSeq(b)}
       IN /\ total' = [total EXCEPT ![p] = @ + Len(b)]
          /\ IF AfterBatch
               THEN /\ table' = after
                    /\ pending' = [pending EXCEPT ![p] = {}]
                    /\ committed' = Append(committed, [by |-> p, rows |-> after])
                    /\ log' = [log EXCEPT ![p] = @ \o <<"stmt", "commit">>]
               ELSE /\ pending' = [pending EXCEPT ![p] = mine]
                    /\ log' = [log EXCEPT ![p] = Append(@, "stmt")]
                    /\ UNCHANGED <<table, committed>>
    /\ cur' = [cur EXCEPT ![p] = @ + BATCH_SIZE]
    /\ UNCHANGED <<script, records, table0, pc, conn, exitCode, raised>>

\* The statement of a batch raises (any database error, among them the
\* refusal of a statement that writes one row twice): the exception leaves
\* upsert_to_cloud_sql.
StmtFail(p) ==
    /\ pc[p] = "upsert" /\ records # <<>> /\ cur[p] < Len(records)
    /\ log' = [log EXCEPT ![p] = Append(@, "stmt_failed")]
    /\ raised' = [raised EXCEPT ![p] = TRUE]
    /\ pc' = [pc EXCEPT ![p] = OnUpsertException]
    /\ UNCHANGED <<script, records, table, table0, committed, cur, total, conn,
                   pending, exitCode>>

\* conn.commit(), cursor.close(), return total.
Commit(p) ==
    /\ pc[p] = "upsert" /\ records # <<>> /\ cur[p] >= Len(records)
    /\ table' = Visible(p)
    /\ committed' = Append(committed, [by |-> p, rows |-> Visible(p)])
    /\ pending' = [pending EXCEPT ![p] = {}]
    /\ log' = [log EXCEPT ![p] = Append(@, "commit")]
    /\ pc' = [pc EXCEPT ![p] = "finally"]
    /\ UNCHANGED <<script, records, table0, cur, total, conn, exitCode, raised>>

\* conn.commit() raises.
CommitFail(p) ==
    /\ pc[p] = "upsert" /\ records # <<>> /\ cur[p] >= Len(records)
    /\ log' = [log EXCEPT ![p] = Append(@, "commit_failed")]
    /\ raised' = [raised EXCEPT ![p] = TRUE]
    /\ pc' = [pc EXCEPT ![p] = OnUpsertException]
    /\ UNCHANGED <<script, records, table, table0, committed, cur, total, conn,
                   pending, exitCode>>

\* finally: conn.close().  An uncommitted transaction is rolled back; a
\* pending exception then leaves main (the interpreter exits with 1).
Close(p) ==
    /\ pc[p] = "finally"
    /\ conn' = [conn EXCEPT ![p] = "closed"]
    /\ pending' = [pending EXCEPT ![p] = {}]
    /\ log' = [log EXCEPT ![p] = Append(@, "close")]
    /\ IF raised[p]
         THEN /\ pc' = [pc EXCEPT ![p] = "exit"]
              /\ exitCode' = [exitCode EXCEPT ![p] = 1]
         ELSE /\ pc' = [pc EXCEPT ![p] = "verify"]
              /\ UNCHANGED exitCode
    /\ UNCHANGED <<script, records, table, table0, committed, cur, total, raised>>

\* The verification summary and the exit.
Verify(p) ==
    /\ pc[p] = "verify"
    /\ exitCode' = [exitCode EXCEPT ![p] = ExitCode(total[p], Len(records))]
    /\ pc' = [pc EXCEPT ![p] = "exit"]
    /\ UNCHANGED <<script, records, table, table0, committed, cur, total, conn,
                   pending, log, raised>>

-----------------------------------------------------------------------------
(* Specifications *)

FetchStart == FetchInit /\ MapperIdle /\ LegacyIdle /\ PrepareIdle /\ MainIdle
FetchNext == FetchPage /\ UNCHANGED <<mvars, lvars, pvars, dvars>>
SpecFetch == FetchStart /\ [][FetchNext]_vars

MapperStart == FetchIdle /\ MapperInit /\ LegacyIdle /\ PrepareIdle /\ MainIdle
MapperNext == MapRow /\ UNCHANGED <<fvars, lvars, pvars, dvars>>
SpecMapper == MapperStart /\ [][MapperNext]_vars

LegacyStart == FetchIdle /\ MapperIdle /\ LegacyInit /\ PrepareIdle /\ MainIdle
LegacyNext ==
    \/ LegacyRow /\ UNCHANGED <<fvars, mvars, pvars, dvars>>
    \/ LegacyRowNullSeason /\ UNCHANGED <<fvars, mvars, pvars, dvars>>
    \/ LegacyReturn /\ UNCHANGED <<fvars, mvars, pvars, dvars>>
SpecLegacy == LegacyStart /\ [][LegacyNext]_vars

PrepareOthers ==
    <<script, table, table0, committed, pc, cur, total, conn, pending, log,
      exitCode, raised>>
\* main has fetched the map and the rows of both sources; `records = []`.
PrepareStart ==
    /\ FetchIdle /\ MapperIdle /\ LegacyIdle /\ PrepareInit
    /\ script = "qual" /\ records = <<>> /\ table = {} /\ table0 = {}
    /\ committed = <<>>
    /\ pc = [p \in Procs |-> "idle"] /\ cur = [p \in Procs |-> 0]
    /\ total = [p \in Procs |-> 0] /\ conn = [p \in Procs |-> "none"]
    /\ pending = [p \in Procs |-> {}] /\ log = [p \in Procs |-> <<>>]
    /\ exitCode = [p \in Procs |-> -1] /\ raised = [p \in Procs |-> FALSE]
PrepareNext ==
    \/ PrepCoachRow /\ UNCHANGED <<fvars, mvars, lvars, PrepareOthers>>
    \/ PrepCoachEnd /\ UNCHANGED <<fvars, mvars, lvars, PrepareOthers>>
    \/ PrepLegacyRow /\ UNCHANGED <<fvars, mvars, lvars, PrepareOthers>>
    \/ PrepLegacyEnd /\ UNCHANGED <<fvars, mvars, lvars, PrepareOthers>>
SpecPrepare == PrepareStart /\ [][PrepareNext]_vars

MainOthers == <<fvars, mvars, lvars, pvars>>
MainStart ==
    /\ source = <<>> /\ offset = 0 /\ batch = <<>> /\ requests = <<>>
    /\ pageLens = <<>> /\ fpc = "idle"
    /\ MapperIdle /\ LegacyIdle /\ PrepareIdle /\ MainInit

\* The script is run, and run again once the first run has exited.
Turn(p) == p = 2 => pc[1] = "exit"

MainNext ==
    \/ \E p \in Procs : Turn(p) /\ VeerNoData(p) /\ UNCHANGED MainOthers
    \/ \E p \in Procs : Turn(p) /\ VeerFilter(p) /\ UNCHANGED MainOthers
    \/ \E p \in Procs : Turn(p) /\ Connect(p) /\ UNCHANGED MainOthers
    \/ \E p \in Procs : Turn(p) /\ ConnectFail(p) /\ UNCHANGED MainOthers
    \/ \E p \in Procs : Turn(p) /\ UpsertEmpty(p) /\ UNCHANGED MainOthers
    \/ \E p \in Procs : Turn(p) /\ StmtOk(p) /\ UNCHANGED MainOthers
    \/ \E p \in Procs : Turn(p) /\ StmtFail(p) /\ UNCHANGED MainOthers
    \/ \E p \in Procs : Turn(p) /\ Commit(p) /\ UNCHANGED MainOthers
    \/ \E p \in Procs : Turn(p) /\ CommitFail(p) /\ UNCHANGED MainOthers
    \/ \E p \in Procs : Turn(p) /\ Close(p) /\ UNCHANGED MainOthers
    \/ \E p \in Procs : Turn(p) /\ Verify(p) /\ UNCHANGED MainOthers
SpecMain == MainStart /\ [][MainNext]_vars

\* A run that has started goes on to its exit.
SpecMainFair == SpecMain /\ WF_vars(MainNext)

\* Two invocations of the script at once.
RaceNext ==
    \/ \E p \in Procs : VeerNoData(p) /\ UNCHANGED MainOthers
    \/ \E p \in Procs : VeerFilter(p) /\ UNCHANGED MainOthers
    \/ \E p \in Procs : Connect(p) /\ UNCHANGED MainOthers
    \/ \E p \in Procs : ConnectFail(p) /\ UNCHANGED MainOthers
    \/ \E p \in Procs : UpsertEmpty(p) /\ UNCHANGED MainOthers
    \/ \E p \in Procs : StmtOk(p) /\ UNCHANGED MainOthers
    \/ \E p \in Procs : StmtFail(p) /\ UNCHANGED MainOthers
    \/ \E p \in Procs : Commit(p) /\ UNCHANGED MainOthers
    \/ \E p \in Procs : CommitFail(p) /\ UNCHANGED MainOthers
    \/ \E p \in Procs : Close(p) /\ UNCHANGED MainOthers
    \/ \E p \in Procs : Verify(p) /\ UNCHANGED MainOthers
SpecRace == MainStart /\ [][RaceNext]_vars

Spec == SpecMain

-----------------------------------------------------------------------------
(* Claims about fetch_all_paginated (SpecFetch) *)

\* C1: on a source of N matching rows the requests are at the offsets 0, P,
\* 2P, ...; the fetch stops after the first page shorter than P, after
\* exactly N \div P + 1 requests, and returns exactly the N rows in source
\* order; when N is a multiple of P the last request returns no row.
C1_FetchAllPaginated ==
    LET m == Matching(source)
        N == Len(m)
    IN /\ requests = [k \in 1..Len(requests) |-> (k - 1) * page_size]
       /\ \A k \in 1..(Len(pageLens) - 1) : pageLens[k] = page_size
       /\ fpc = "done" =>
            /\ Len(requests) = (N \div page_size) + 1
            /\ pageLens[Len(pageLens)] < page_size
            /\ rows = m
            /\ \A k \in 1..N : Cardinality({j \in 1..Len(rows) : rows[j] = m[k]}) = 1
            /\ (N % page_size = 0 => batch = <<>>)

\* A source of exactly two full pages (some rows filtered out) has been
\* fetched: three requests, the last one empty.
C1_Witness ==
    /\ fpc = "done"
    /\ Len(rows) = 2 * page_size
    /\ Len(source) > Len(rows)
    /\ Len(requests) = 3
    /\ batch = <<>>

-----------------------------------------------------------------------------
(* Claims about fetch_runner_id_map (SpecMapper) *)

\* The profile rows of email e among the first n.
RowsOf(e, n) == {k \in 1..n : profile[k].email_id = e}
TruthyRowsOf(e, n) == {k \in RowsOf(e, n) : Truthy(profile[k].runner_id)}
MaxOf(S) == CHOOSE k \in S : \A j \in S : j <= k

\* C9 as stated: the map keeps for each email the runner_id of the
\* last-seen profile row of that email, and holds no entry whose runner_id
\* is empty or null (an email whose last-seen row has none has no entry).
C9_LastSeenRow ==
    MapperDone =>
        \A e \in Emails :
            LET seen == RowsOf(e, Len(profile)) IN
            IF seen # {} /\ Truthy(profile[MaxOf(seen)].runner_id)
              THEN e \in DOMAIN mapping
                   /\ mapping[e] = profile[MaxOf(seen)].runner_id
              ELSE e \notin DOMAIN mapping

\* C9 amended: the map keeps for each email the runner_id of the last-seen
\* profile row of that email among the rows whose runner_id is not empty
\* or null; an email with no such row has no entry.
C9_LastTruthyRow ==
    \A e \in Emails :
        LET seen == TruthyRowsOf(e, mi - 1) IN
        IF seen # {}
          THEN e \in DOMAIN mapping
               /\ mapping[e] = profile[MaxOf(seen)].runner_id
               /\ Truthy(mapping[e])
          ELSE e \notin DOMAIN mapping

\* An email seen twice with two runner ids, the later one kept.
C9_Witness ==
    /\ MapperDone
    /\ \E e \in Emails :
          /\ Cardinality(TruthyRowsOf(e, Len(profile))) = 2
          /\ \E j, k \in TruthyRowsOf(e, Len(profile)) :
                /\ j < k
                /\ profile[j].runner_id # profile[k].runner_id
                /\ mapping[e] = profile[k].runner_id

-----------------------------------------------------------------------------
(* Claims about fetch_legacy_quals (SpecLegacy) *)

\* The decimal value of a digit string, as a sum of powers of ten.
RECURSIVE Pow10(_)
Pow10(n) == IF n = 0 THEN 1 ELSE 10 * Pow10(n - 1)
RECURSIVE SumTo(_, _)
SumTo(d, n) ==
    IF n = 0 THEN 0
    ELSE SumTo(d, n - 1) + DigitVal[d[n]] * Pow10(Len(d) - n)

\* The filter as the claim states it: the digits of the season, taken in
\* order, are at least one and read as a number at most 13, and the qual
\* has a character that is not white space.
ClaimKeeps(r) ==
    LET idx == {k \in 1..Len(r.season) : r.season[k] \in DOMAIN DigitVal}
        d == SelectSeq(r.season, LAMBDA c : c \in DOMAIN DigitVal)
    IN /\ idx # {}
       /\ SumTo(d, Len(d)) <= 13
       /\ \E k \in 1..Len(r.qual) : r.qual[k] # " "

\* C7: the season number is the concatenation of the digit characters of
\* the season ("Season 13" and "S-13" give 13); a row is kept iff that digit
\* string is not empty, its value is <= 13 and the qual is not empty after
\* trimming; a row whose season has no digit is dropped and no error is
\* raised.
C7_LegacySeasonFilter ==
    /\ ParseInt(DigitsOf(<<"S", "e", "a", "s", "o", "n", " ", "1", "3">>)) = 13
    /\ ParseInt(DigitsOf(<<"S", "-", "1", "3">>)) = 13
    /\ lpc # "raised"
    /\ \A k \in 1..(li - 1) :
          Cardinality({j \in 1..Len(legacy) : legacy[j] = legacy_in[k]}) > 0
            <=> ClaimKeeps(legacy_in[k])

\* C7 on the rows whose season is a string: the same statement, holding in
\* every run in which no row has a null season.
C7_StringSeasons ==
    (\A k \in 1..Len(legacy_in) : legacy_in[k].season # NoneText) =>
        C7_LegacySeasonFilter

\* "Season 13" kept next to a row that is dropped for having no digit.
C7_Witness ==
    /\ lpc = "done"
    /\ Len(legacy_in) = 2 /\ Len(legacy) = 1
    /\ \E k \in 1..2 : DigitsOf(legacy_in[k].season) = <<>>

-----------------------------------------------------------------------------
(* Claims about step 5 of the qual script's main (SpecPrepare) *)

\* The filtered rows of both sources in the order main reads them, each
\* with the name of its source table.
TaggedRows ==
    [k \in 1..Len(coach_input_rows) |->
        [email_id |-> coach_input_rows[k].email_id,
         season |-> coach_input_rows[k].season,
         meso |-> coach_input_rows[k].meso,
         qual |-> coach_input_rows[k].meso_qual_score,
         tag |-> "rhwb_coach_input"]] \o
    [k \in 1..Len(legacy_rows) |->
        [email_id |-> legacy_rows[k].email_id,
         season |-> legacy_rows[k].season,
         meso |-> legacy_rows[k].meso,
         qual |-> legacy_rows[k].qual,
         tag |-> "rhwb_meso_scores"]]

MappedRows == SelectSeq(TaggedRows, LAMBDA t : t.email_id \in DOMAIN runner_map)

\* C6: every row of either source whose email is not in the identifier map
\* is left out of the prepared records, and its email is in the unmapped
\* set exactly once however many rows carry it; every row whose email is
\* mapped gives exactly one prepared record, with the mapped runner_id and
\* the name of its source table.
C6_UnmappedExcluded ==
    ppc = "done" =>
        /\ Len(records) = Len(MappedRows)
        /\ \A k \in 1..Len(MappedRows) :
              records[k] =
                [runner_id |-> runner_map[MappedRows[k].email_id],
                 season |-> MappedRows[k].season, meso |-> MappedRows[k].meso,
                 qual_score |-> MappedRows[k].qual,
                 source_table |-> MappedRows[k].tag]
        /\ \A e \in Emails :
              Cardinality({j \in 1..Len(unmapped) : unmapped[j] = e}) =
                IF e \notin DOMAIN runner_map
                   /\ \E k \in 1..Len(TaggedRows) : TaggedRows[k].email_id = e
                  THEN 1 ELSE 0

\* An unmapped email carried by a row of each source, next to a mapped row.
C6_Witness ==
    /\ ppc = "done"
    /\ Len(records) >= 1
    /\ \E e \in Emails \ DOMAIN runner_map :
          /\ \E k \in 1..Len(coach_input_rows) : coach_input_rows[k].email_id = e
          /\ \E k \in 1..Len(legacy_rows) : legacy_rows[k].email_id = e
          /\ e \in Range(unmapped)

-----------------------------------------------------------------------------
(* Claims about main and upsert_to_cloud_sql (SpecMain, SpecMainFair) *)

Count(s, v) == Cardinality({k \in 1..Len(s) : s[k] = v})
NBatches == (Len(records) + BATCH_SIZE - 1) \div BATCH_SIZE
UniqueKeys(T) == \A x, y \in T : KeyOf(x) = KeyOf(y) => x = y
\* A row without its updated_at.
ValueCols(x) == [x EXCEPT !.updated_at = 0]
\* upsert_to_cloud_sql has returned to main without an exception.
Returned(p) == pc[p] \in {"finally", "verify", "exit"} /\ conn[p] # "none" /\ ~raised[p]

\* The part of C2 about a failing batch: the exception propagates, no
\* commit is issued on the connection, and nothing the run wrote is in the
\* target table (the table changes by commits only).
FailedBatchLeavesNothing ==
    /\ \A p \in Procs :
          Count(log[p], "stmt_failed") > 0 =>
            /\ raised[p] /\ pc[p] \in {"finally", "exit"}
            /\ Count(log[p], "commit") = 0 /\ Count(log[p], "commit_failed") = 0
            /\ pending[p] # {} => conn[p] = "open"
            /\ \A k \in 1..Len(committed) : committed[k].by # p
    /\ table = IF committed = <<>> THEN table0 ELSE committed[Len(committed)].rows

\* The part of C2 about the place of the commit: never between batches,
\* only after the statement of the last batch.
CommitAfterLastBatch ==
    \A p \in Procs :
        /\ Count(log[p], "commit") <= 1
        /\ \A j \in 1..Len(log[p]) :
              log[p][j] = "commit" =>
                /\ j = NBatches + 1
                /\ \A k \in 1..(j - 1) : log[p][k] = "stmt"

\* C2 as stated: the commit happens exactly once in upsert_to_cloud_sql,
\* after the last batch statement and never between batches; a failing
\* batch statement propagates, with no commit and nothing persisted.
C2_CommitExactlyOnce ==
    /\ CommitAfterLastBatch
    /\ FailedBatchLeavesNothing
    /\ \A p \in Procs : Returned(p) => Count(log[p], "commit") = 1

\* C2 amended: a call with at least one record commits exactly once, after
\* the last batch statement and never between batches; a call with no
\* record returns 0 without any statement or commit; a failing batch
\* statement propagates, with no commit and nothing persisted.
C2_CommitOnceIfRecords ==
    /\ CommitAfterLastBatch
    /\ FailedBatchLeavesNothing
    /\ \A p \in Procs :
          Returned(p) =>
            IF records # <<>>
              THEN Count(log[p], "commit") = 1
              ELSE Count(log[p], "commit") = 0 /\ Count(log[p], "stmt") = 0
                   /\ total[p] = 0

\* The second batch failed after the first had been executed: the first
\* run has left with the exception and the table is as it was.
C2_Witness ==
    /\ pc[1] = "exit" /\ raised[1]
    /\ log[1] = <<"stmt", "stmt_failed", "close">>
    /\ committed = <<>> /\ table = table0

\* C3: after two runs with the same records the table holds, for every
\* key, one row whose value columns are those after the first run; only
\* updated_at is refreshed (on the rows the records write); no second row
\* of a key ever exists.
C3_SecondRunSameRows ==
    /\ UniqueKeys(table)
    /\ \A p \in Procs : UniqueKeys(Visible(p))
    /\ Len(committed) = 2 =>
          LET T1 == committed[1].rows
              T2 == committed[2].rows
          IN /\ {ValueCols(x) : x \in T2} = {ValueCols(x) : x \in T1}
             /\ Cardinality(T2) = Cardinality(T1)
             /\ \A k \in 1..Len(records) :
                   Cardinality({x \in T2 : KeyOf(x) = KeyOf(records[k])}) = 1
             /\ \A x \in T2 :
                   IF KeyOf(x) \in KeysOfSeq(records)
                     THEN x.updated_at = Now(committed[2].by)
                     ELSE x \in T1

\* Both runs have committed records of two batches that hit a row present
\* before and write one key twice.
C3_Witness ==
    /\ Len(committed) = 2
    /\ Len(records) > BATCH_SIZE
    /\ \E x \in table0 : KeyOf(x) \in KeysOfSeq(records)
    /\ \E j, k \in 1..Len(records) :
          j < k /\ KeyOf(records[j]) = KeyOf(records[k]) /\ records[j] # records[k]
    /\ \E x \in table : x.updated_at = 2

\* C4: a run that ends without an exception exits with 0 exactly when the
\* number of records upserted equals the number prepared (zero prepared
\* records included), and with 1 when they differ.
C4_ExitContract ==
    \A p \in Procs :
        (pc[p] = "exit" /\ ~raised[p]) =>
            /\ exitCode[p] \in {0, 1}
            /\ exitCode[p] = 0 <=> total[p] = Len(records)

\* A feedback run whose rows all lack a runner_id: nothing prepared,
\* nothing upserted, exit code 0.
C4_Witness ==
    /\ script = "veer" /\ rows # <<>> /\ records = <<>>
    /\ pc[1] = "exit" /\ ~raised[1] /\ conn[1] = "closed"
    /\ total[1] = 0 /\ exitCode[1] = 0

\* The columns outside the key (and outside updated_at) of a row or record.
NonKeyCols(x) ==
    IF script = "qual"
      THEN <<x.qual_score, x.source_table>>
      ELSE <<x.feedback, x.user_question, x.assistant_response, x.comment,
             x.created_at>>

\* The non-key columns the veer statement's SET list names.
VeerSetCols(x) ==
    <<x.feedback, x.user_question, x.assistant_response, x.comment>>

\* The last record of batch b with key k.
LastFor(b, k) == b[MaxOf({j \in 1..Len(b) : KeyOf(b[j]) = k})]
FirstFor(b, k) == b[CHOOSE j \in 1..Len(b) :
                      KeyOf(b[j]) = k /\ \A i \in 1..(j - 1) : KeyOf(b[i]) # k]

\* Invocation p has just executed the statement of a batch.
StmtDone(p) == log'[p] = Append(log[p], "stmt")

\* The rows whose key the batch does not write are left as they were, and
\* the batch adds no row of another key.
OtherRowsUntouched(p, b) ==
    /\ \A x \in Visible(p) : KeyOf(x) \notin KeysOfSeq(b) => x \in Visible(p)'
    /\ \A x \in Visible(p)' : KeyOf(x) \notin KeysOfSeq(b) => x \in Visible(p)

\* C5: a statement overwrites, in the row of every key it writes, every
\* non-key column with the incoming record's value and sets updated_at;
\* the key columns and the rows of other keys are unchanged; in qual_scores
\* (qual_score, source_table) and in veer_feedback (feedback,
\* user_question, assistant_response, comment, created_at).
C5_ConflictOverwritesNonKey ==
    [][\A p \in Procs :
         StmtDone(p) =>
           LET b == BatchAt(cur[p]) IN
           /\ OtherRowsUntouched(p, b)
           /\ \A k \in KeysOfSeq(b) :
                 /\ Cardinality({x \in Visible(p)' : KeyOf(x) = k}) = 1
                 /\ \A x \in Visible(p)' :
                       KeyOf(x) = k =>
                         /\ NonKeyCols(x) = NonKeyCols(LastFor(b, k))
                         /\ x.updated_at = Now(p)]_vars

\* What the statements do: as C5, but created_at of veer_feedback is
\* written by the insert of a new key only and kept on a key collision.
C5_CreatedAtKept ==
    [][\A p \in Procs :
         StmtDone(p) =>
           LET b == BatchAt(cur[p]) IN
           /\ OtherRowsUntouched(p, b)
           /\ \A k \in KeysOfSeq(b) :
                 /\ Cardinality({x \in Visible(p)' : KeyOf(x) = k}) = 1
                 /\ \A x \in Visible(p)' :
                       KeyOf(x) = k =>
                         /\ x.updated_at = Now(p)
                         /\ IF script = "qual"
                              THEN NonKeyCols(x) = NonKeyCols(LastFor(b, k))
                              ELSE /\ VeerSetCols(x) = VeerSetCols(LastFor(b, k))
                                   /\ \A y \in Visible(p) :
                                         KeyOf(y) = k => x.created_at = y.created_at
                                   /\ k \notin KeysOf(Visible(p)) =>
                                         x.created_at = FirstFor(b, k).created_at]_vars

\* The calls on the connection of invocation p, and where main stands.
ConnectionUse(p) ==
    /\ \A j \in 1..Len(log[p]) : log[p][j] = "close" => j = Len(log[p])
    /\ conn[p] = "closed" <=> Count(log[p], "close") = 1
    /\ conn[p] = "none" => log[p] = <<>>
    /\ pc[p] = "verify" => conn[p] = "closed"
    /\ (pc[p] = "exit" /\ conn[p] # "none") => conn[p] = "closed"
    /\ (exitCode[p] # -1 /\ conn[p] # "none") => conn[p] = "closed"

\* C8: a connection opened in main is eventually closed, after a
\* successful upsert and after one that raised (before the exception leaves
\* main); nothing is executed or committed on it after the close; the
\* count verification runs after the close only.
C8_ConnectionClosed ==
    /\ [](\A p \in Procs : ConnectionUse(p))
    /\ \A p \in Procs : (conn[p] = "open") ~> (conn[p] = "closed")

\* The upsert raised on its second batch and main has left with the
\* exception, the connection closed.
C8_Witness ==
    /\ pc[1] = "exit" /\ raised[1] /\ exitCode[1] = 1
    /\ conn[1] = "closed"
    /\ log[1] = <<"stmt", "stmt_failed", "close">>

-----------------------------------------------------------------------------
(* Claims about two invocations at once (SpecRace) *)

BothCommitted == \A p \in Procs : Count(log[p], "commit") = 1

\* C10: once two racing invocations with the same records have both
\* committed, the table holds for every key one row, with the value columns
\* a single run leaves.
C10_RaceConverges ==
    BothCommitted =>
        LET single == ExecuteValues(table0, records, 0) IN
        /\ UniqueKeys(table)
        /\ {ValueCols(x) : x \in table} = {ValueCols(x) : x \in single}
        /\ {ValueCols(x) : x \in table} = {ValueCols(x) : x \in committed[1].rows}
        /\ Cardinality(table) = Cardinality(single)

\* Both invocations have committed two batches while both connections were
\* open, the second invocation first; a key is written twice and a row of
\* it was there before.
C10_Witness ==
    /\ BothCommitted
    /\ committed[1].by = 2
    /\ conn[1] = "open" /\ conn[2] = "open"
    /\ Len(records) > BATCH_SIZE
    /\ \E x \in table0 : KeyOf(x) \in KeysOfSeq(records)
    /\ \E j, k \in 1..Len(records) :
          j < k /\ KeyOf(records[j]) = KeyOf(records[k]) /\ records[j] # records[k]

=============================================================================
